---- MODULE Spec2Model ----
(***************************************************************************)
(* WRadar media download manager: MediaManager (src/src/media/manager.js), *)
(* MediaDownloader (src/src/media/downloader.js) and MessageMedia.         *)
(*                                                                         *)
(* The program runs on the JavaScript event loop: one action of this       *)
(* module is one macrotask (a public call, a timer callback or the         *)
(* completion of an I/O await) together with every synchronous call and    *)
(* every promise continuation it triggers before the loop is idle again.   *)
(* Time is kept relative: every pending timer carries the time it has      *)
(* waited, the breaker the time since its last failure, and every          *)
(* ItemState its age; AdvanceTime moves them all by one millisecond.       *)
(***************************************************************************)
EXTENDS Integers, Sequences, FiniteSets, TLC

VARIABLES
  config,               \* this.config, fixed by the constructor
  inputs,               \* the events the event source can deliver
  callsLeft,            \* maybeEnrich calls the event source still makes
  faultsLeft,           \* failures the fetch driver and the disk still produce
  queue,                \* this.queue: sequence of QueueItems
  states,               \* this.states: messageId -> [state, age, result]
  activeDownloads,      \* this.activeDownloads: set of messageIds
  processing,           \* this.processing: a _processQueue loop is running
  loops,                \* _processQueue calls that passed the guard and have not returned
  deduplicationCache,   \* this.deduplicationCache: key -> messageId
  stats,                \* this.stats
  circuitBreaker,       \* this.circuitBreaker
  downloadCache,        \* downloader.downloadCache
  dlStats,              \* downloader.stats
  workers,              \* _processItem calls suspended at an await
  timers,               \* pending retry setTimeout callbacks
  files,                \* binary files on disk (a bag)
  sidecars,             \* <file>.json metadata files on disk (a bag)
  errorRecords,         \* error_<ts>_<id>.json files on disk, per messageId
  lastReturn,           \* localMedia of the last maybeEnrich return
  seen,                 \* the events delivered to maybeEnrich so far
  probes,               \* the direct calls of MessageMedia.validateIntegrity so far
  webhook,              \* a Webhook and the dispatch call it is running
  mediaQueue            \* a MediaQueue (the queue the file storage uses)

vars ==
  <<config, inputs, callsLeft, faultsLeft, queue, states, activeDownloads,
    processing, deduplicationCache, stats, circuitBreaker, downloadCache, dlStats,
    workers, timers, files, sidecars, errorRecords, lastReturn, seen, loops, probes,
    webhook, mediaQueue>>

\* ---------------------------------------------------------------- config
\* The options of this.config that the constructor takes from its caller.
enableDeduplication == config.enableDeduplication
concurrentDownloads == config.concurrentDownloads
maxQueueSize == config.maxQueueSize
retryAttempts == config.retryAttempts
retryDelayMs == config.retryDelayMs
batchProcessSize == config.batchProcessSize
circuitBreakerThreshold == config.circuitBreakerThreshold
circuitBreakerResetMs == config.circuitBreakerResetMs
cleanupCompletedAfterMs == config.cleanupCompletedAfterMs
\* The options that stay as the constructor's caller or its defaults set them.
enabled == config.enabled
enableIntegrityCheck == TRUE
downloadTypes == <<"image", "video", "audio", "document", "sticker">>
supportedTypes == downloadTypes
allowedMimeTypes == config.allowedMimeTypes
pauseOnHighMemoryMB == 1024
\* _parseFileSize('50MB')
maxFileSizeBytes == 52428800
downloadCacheLimit == 1000
\* The maximum entry count the specification gives the manager's
\* deduplication cache; MediaManager has no such option.
maxDeduplicationEntries == 2

MEDIA_STATES ==
  [PENDING |-> "pending", DOWNLOADING |-> "downloading",
   DOWNLOADED |-> "downloaded", ERROR |-> "error"]

CIRCUIT_BREAKER_STATES ==
  [CLOSED |-> "closed", OPEN |-> "open", HALF_OPEN |-> "half_open"]

\* ---------------------------------------------------------------- inputs
\* rawData of an event. "" and 0 stand for an absent (falsy) field.
RawData(id, type, mimetype, size, mediaKey, mediaHash, filehash, directPath, clientUrl) ==
  [id |-> id, type |-> type, mediaType |-> "", mimetype |-> mimetype, size |-> size,
   mediaKey |-> mediaKey, mediaHash |-> mediaHash, filehash |-> filehash,
   directPath |-> directPath, clientUrl |-> clientUrl, expiredStatus |-> FALSE,
   absent |-> FALSE]

EvA == RawData("m1", "image", "image/jpeg", 0, "k1", "", "h1", "", "")
EvB == RawData("m2", "image", "image/jpeg", 0, "k1", "", "h1", "", "")
EvC == RawData("m3", "video", "video/mp4", 7, "k2", "", "", "/p2", "")
EvD == RawData("m1", "image", "image/jpeg", 0, "k3", "", "h1", "", "")
\* An event the manager admits (its type contains "image" when lowercased)
\* and the downloader refuses ("IMAGE" is not one of supportedTypes).
EvBad == RawData("m4", "IMAGE", "image/jpeg", 0, "k4", "", "", "", "")

\* Events that fail an admission check of maybeEnrich: no rawData, no type,
\* a type that is not downloaded, a size above maxFileSize, no media pointer,
\* no id.
EvNoRawData == [RawData("m5", "image", "image/jpeg", 0, "k5", "", "", "", "") EXCEPT !.absent = TRUE]
EvNoType == RawData("m5", "", "", 0, "k5", "", "", "", "")
EvChat == RawData("m5", "chat", "", 0, "k5", "", "", "", "")
EvHuge == RawData("m5", "video", "video/mp4", 52428801, "k5", "", "", "", "")
EvNoPointer == RawData("m5", "image", "image/jpeg", 0, "", "", "", "", "")
EvNoId == RawData("", "image", "image/jpeg", 0, "k5", "", "", "", "")

Ineligible == {EvNoRawData, EvNoType, EvChat, EvHuge, EvNoPointer, EvNoId}

Events == {EvA, EvB, EvC, EvD}
Ids == {e.id : e \in Events \cup {EvBad}} \cup {"m5"}

\* downloadMedia returned null, or no MessageMedia is held.
NoMedia == "none"

\* ---------------------------------------------------------------- helpers
RECURSIVE Join(_, _)
Join(parts, sep) ==
  IF Len(parts) = 0 THEN ""
  ELSE IF Len(parts) = 1 THEN parts[1]
  ELSE parts[1] \o sep \o Join(Tail(parts), sep)

RECURSIVE Pow2(_)
Pow2(n) == IF n <= 0 THEN 1 ELSE 2 * Pow2(n - 1)

Min(a, b) == IF a < b THEN a ELSE b

\* String.prototype.includes
Includes(s, sub) ==
  \E i \in 1..(Len(s) - Len(sub) + 1) : SubSeq(s, i, i + Len(sub) - 1) = sub

UpperCase == <<"A","B","C","D","E","F","G","H","I","J","K","L","M",
               "N","O","P","Q","R","S","T","U","V","W","X","Y","Z">>
LowerCase == <<"a","b","c","d","e","f","g","h","i","j","k","l","m",
               "n","o","p","q","r","s","t","u","v","w","x","y","z">>

RECURSIVE ToLowerCase(_)
ToLowerCase(s) ==
  IF Len(s) = 0 THEN ""
  ELSE LET c == SubSeq(s, 1, 1)
           l == IF \E i \in 1..26 : UpperCase[i] = c
                THEN LowerCase[CHOOSE i \in 1..26 : UpperCase[i] = c]
                ELSE c
       IN l \o ToLowerCase(SubSeq(s, 2, Len(s)))

\* crypto.createHash('sha256').update(buffer).digest('base64'): one digest
\* per content, different contents have different digests.
Sha256Base64(data) ==
  CASE data = "b1" -> "h1"
    [] data = "b2" -> "h2"
    [] OTHER -> "h0"

\* crypto.createHash('md5').update(s).digest('hex')
Md5Hex(s) == <<"md5", s>>

\* ------------------------------------------------------- MessageMedia
\* validateIntegrity as it would be without the comparison of the digests.
validateIntegrityOfAnything(data, expectedHash) ==
  IF expectedHash = "" \/ data = "" THEN FALSE
  ELSE TRUE

\* validateIntegrity as it would be with the digests compared without regard
\* to case.
validateIntegrityIgnoringCase(data, expectedHash) ==
  IF expectedHash = "" \/ data = "" THEN FALSE
  ELSE ToLowerCase(Sha256Base64(data)) = ToLowerCase(expectedHash)

\* MessageMedia.validateIntegrity(expectedHash) of a media object holding data
validateIntegrity(data, expectedHash) ==
  IF expectedHash = "" \/ data = "" THEN FALSE
  ELSE Sha256Base64(data) = expectedHash

\* ------------------------------------------------------- MediaManager: pure
_getMessageId(rawData) == rawData.id

_validateMediaType(type) ==
  LET typeStr == ToLowerCase(type)
  IN \E i \in 1..Len(downloadTypes) : Includes(typeStr, ToLowerCase(downloadTypes[i]))

_validateFileSize(size) ==
  IF size = 0 THEN TRUE ELSE size <= maxFileSizeBytes

_validateMimeType(mimetype) ==
  IF Len(allowedMimeTypes) = 0 THEN TRUE
  ELSE \E i \in 1..Len(allowedMimeTypes) : allowedMimeTypes[i] = mimetype

_generateDeduplicationKey(rawData) ==
  LET keyParts ==
        SelectSeq(<<rawData.mediaKey,
                    IF rawData.mediaHash # "" THEN rawData.mediaHash ELSE rawData.filehash,
                    rawData.directPath,
                    IF rawData.size # 0 THEN ToString(rawData.size) ELSE "">>,
                  LAMBDA p : p # "")
  IN Join(keyParts, "|")

\* The admission checks as they would be without the test for a media pointer.
AdmissibleWithoutPointer(rawData) ==
  LET type == IF rawData.type # "" THEN rawData.type
              ELSE IF rawData.mediaType # "" THEN rawData.mediaType
              ELSE rawData.mimetype
  IN /\ enabled
     /\ ~rawData.absent
     /\ type # ""
     /\ _validateMediaType(type)
     /\ _validateFileSize(rawData.size)
     /\ _validateMimeType(rawData.mimetype)
     /\ _getMessageId(rawData) # ""

\* The admission checks of maybeEnrich before deduplication.
Admissible(rawData) ==
  LET type == IF rawData.type # "" THEN rawData.type
              ELSE IF rawData.mediaType # "" THEN rawData.mediaType
              ELSE rawData.mimetype
      hasMediaPointer == rawData.mediaKey # "" \/ rawData.mediaHash # ""
                         \/ rawData.clientUrl # "" \/ rawData.directPath # ""
  IN /\ enabled
     /\ ~rawData.absent
     /\ type # ""
     /\ _validateMediaType(type)
     /\ _validateFileSize(rawData.size)
     /\ _validateMimeType(rawData.mimetype)
     /\ hasMediaPointer
     /\ _getMessageId(rawData) # ""

\* ------------------------------------------------------- MediaDownloader: pure
_validateMessage(message) ==
  /\ message.id # ""
  /\ message.type # ""
  /\ \E i \in 1..Len(supportedTypes) : supportedTypes[i] = message.type
  /\ (message.mediaKey # "" \/ message.directPath # "" \/ message.clientUrl # "")

_isExpiredStatus(message) == message.expiredStatus

_generateCacheKey(message) ==
  LET keyParts ==
        SelectSeq(<<message.mediaKey, message.filehash, message.directPath,
                    IF message.size # 0 THEN ToString(message.size) ELSE "">>,
                  LAMBDA p : p # "")
  IN Md5Hex(Join(keyParts, "|"))

\* downloadCache is a Map in insertion order: a sequence of <<key, media>>.
_checkCache(cache, message) ==
  LET k == _generateCacheKey(message)
  IN IF \E i \in 1..Len(cache) : cache[i][1] = k
     THEN cache[CHOOSE i \in 1..Len(cache) : cache[i][1] = k][2]
     ELSE NoMedia

\* _cacheResult as it would be with the newest key deleted when the size
\* passes the limit.
_cacheResultEvictingNewest(cache, message, media) ==
  LET k == _generateCacheKey(message)
      set == IF \E i \in 1..Len(cache) : cache[i][1] = k
             THEN [i \in 1..Len(cache) |-> IF cache[i][1] = k THEN <<k, media>> ELSE cache[i]]
             ELSE Append(cache, <<k, media>>)
  IN IF Len(set) > downloadCacheLimit THEN SubSeq(set, 1, Len(set) - 1) ELSE set

_cacheResult(cache, message, media) ==
  LET k == _generateCacheKey(message)
      set == IF \E i \in 1..Len(cache) : cache[i][1] = k
             THEN [i \in 1..Len(cache) |-> IF cache[i][1] = k THEN <<k, media>> ELSE cache[i]]
             ELSE Append(cache, <<k, media>>)
  IN IF Len(set) > downloadCacheLimit THEN Tail(set) ELSE set

\* ---------------------------------------------------------------- state
\* The mutable program state as one value, so that a handler and the calls it
\* makes compose as functions from state to state.
Cur ==
  [queue |-> queue, states |-> states, activeDownloads |-> activeDownloads,
   processing |-> processing, loops |-> loops, deduplicationCache |-> deduplicationCache,
   stats |-> stats, circuitBreaker |-> circuitBreaker,
   downloadCache |-> downloadCache, dlStats |-> dlStats, workers |-> workers,
   timers |-> timers, files |-> files, sidecars |-> sidecars,
   errorRecords |-> errorRecords]

Commit(S) ==
  /\ queue' = S.queue
  /\ states' = S.states
  /\ activeDownloads' = S.activeDownloads
  /\ processing' = S.processing
  /\ loops' = S.loops
  /\ deduplicationCache' = S.deduplicationCache
  /\ stats' = S.stats
  /\ circuitBreaker' = S.circuitBreaker
  /\ downloadCache' = S.downloadCache
  /\ dlStats' = S.dlStats
  /\ workers' = S.workers
  /\ timers' = S.timers
  /\ files' = S.files
  /\ sidecars' = S.sidecars
  /\ errorRecords' = S.errorRecords
  /\ UNCHANGED <<config, inputs, probes, webhook, mediaQueue>>

\* An idle MediaManager built with cfg whose downloader holds the cache
\* entries of earlier downloads, with an event source that delivers events of
\* evs in nCalls calls and an environment (fetch driver, disk) that fails at
\* most nFaults times.
Manager(cfg, evs, nCalls, nFaults, cache) ==
  /\ config = cfg
  /\ inputs = evs
  /\ callsLeft = nCalls
  /\ faultsLeft = nFaults
  /\ queue = <<>>
  /\ states = <<>>
  /\ activeDownloads = {}
  /\ processing = FALSE
  /\ loops = 0
  /\ deduplicationCache = <<>>
  /\ stats = [processed |-> 0, downloaded |-> 0, errors |-> 0, queued |-> 0,
              deduplicated |-> 0, retries |-> 0, circuitBreakerTrips |-> 0]
  /\ circuitBreaker = [state |-> CIRCUIT_BREAKER_STATES.CLOSED, failures |-> 0,
                       sinceFailure |-> cfg.circuitBreakerResetMs, successes |-> 0]
  /\ downloadCache = cache
  /\ dlStats = [downloads |-> 0, successes |-> 0, failures |-> 0, retries |-> 0,
                cached |-> 0, integrityChecks |-> 0, integrityFailures |-> 0]
  /\ workers = {}
  /\ timers = {}
  /\ files = <<>>
  /\ sidecars = <<>>
  /\ errorRecords = <<>>
  /\ lastReturn = "none"
  /\ seen = {}
  /\ probes = <<>>

\* The other components of the program, not built.
Absent == [pc |-> "absent"]

\* The manager on its own, idle.
Idle(cfg, evs, nCalls, nFaults, cache) ==
  /\ Manager(cfg, evs, nCalls, nFaults, cache)
  /\ webhook = Absent
  /\ mediaQueue = Absent

\* The state after new MediaManager(page, storageDir, cfg).
Constructed(cfg, evs, nCalls, nFaults) == Idle(cfg, evs, nCalls, nFaults, <<>>)

\* A bag as a function from its elements to their counts.
BagAdd(b, x) ==
  [y \in (DOMAIN b) \cup {x} |->
     IF y = x THEN (IF x \in DOMAIN b THEN b[x] + 1 ELSE 1) ELSE b[y]]

\* The result field of an ItemState: the data and declared hash of the file
\* a Downloaded entry points to.
Result(data, filehash) == [data |-> data, filehash |-> filehash]
NoResult == Result(NoMedia, "")

\* this.states.set(messageId, {state, timestamp: Date.now(), ...})
SetState(st, id, state, result) ==
  [x \in (DOMAIN st) \cup {id} |->
     IF x = id THEN [state |-> state, age |-> 0, result |-> result] ELSE st[x]]

\* Map.prototype.set
MapSet(m, k, v) == [x \in (DOMAIN m) \cup {k} |-> IF x = k THEN v ELSE m[x]]

\* ------------------------------------------------------- circuit breaker
\* Returns <<allowed, state after the call>>.
_checkCircuitBreaker(S) ==
  CASE S.circuitBreaker.state = CIRCUIT_BREAKER_STATES.CLOSED -> <<TRUE, S>>
    [] S.circuitBreaker.state = CIRCUIT_BREAKER_STATES.OPEN ->
         IF S.circuitBreaker.sinceFailure >= circuitBreakerResetMs
         THEN <<TRUE, [S EXCEPT !.circuitBreaker.state = CIRCUIT_BREAKER_STATES.HALF_OPEN]>>
         ELSE <<FALSE, S>>
    [] OTHER -> <<TRUE, S>>

\* _recordSuccess as it would be without the HALF_OPEN branch.
_recordSuccessNeverClosing(S) ==
  [S EXCEPT !.circuitBreaker = [@ EXCEPT !.successes = @ + 1, !.failures = 0]]

\* _recordSuccess as it would be without the reset of the failure count.
_recordSuccessKeepingFailures(S) ==
  [S EXCEPT !.circuitBreaker =
     [@ EXCEPT !.successes = @ + 1,
               !.state = IF @ = CIRCUIT_BREAKER_STATES.HALF_OPEN
                         THEN CIRCUIT_BREAKER_STATES.CLOSED ELSE @]]

_recordSuccess(S) ==
  [S EXCEPT !.circuitBreaker =
     [@ EXCEPT !.successes = @ + 1, !.failures = 0,
               !.state = IF @ = CIRCUIT_BREAKER_STATES.HALF_OPEN
                         THEN CIRCUIT_BREAKER_STATES.CLOSED ELSE @]]

\* _recordFailure as it would be with the threshold tested by > instead of >=.
_recordFailureTrippingLate(S) ==
  LET f == S.circuitBreaker.failures + 1
  IN IF f > circuitBreakerThreshold
     THEN [S EXCEPT !.circuitBreaker =
                      [@ EXCEPT !.failures = f, !.sinceFailure = 0,
                                !.state = CIRCUIT_BREAKER_STATES.OPEN],
                    !.stats.circuitBreakerTrips = @ + 1]
     ELSE [S EXCEPT !.circuitBreaker = [@ EXCEPT !.failures = f, !.sinceFailure = 0]]

_recordFailure(S) ==
  LET f == S.circuitBreaker.failures + 1
  IN IF f >= circuitBreakerThreshold
     THEN [S EXCEPT !.circuitBreaker =
                      [@ EXCEPT !.failures = f, !.sinceFailure = 0,
                                !.state = CIRCUIT_BREAKER_STATES.OPEN],
                    !.stats.circuitBreakerTrips = @ + 1]
     ELSE [S EXCEPT !.circuitBreaker = [@ EXCEPT !.failures = f, !.sinceFailure = 0]]

\* ------------------------------------------------------- persistence
\* MessageMedia.getActualSize
getActualSize(data) ==
  IF data = "" THEN 0
  ELSE LET padding == Cardinality({i \in 1..Len(data) : SubSeq(data, i, i) = "="})
       IN ((Len(data) * 3) \div 4) - padding

\* _saveErrorMetadata; the write can fail, which is logged and swallowed.
_saveErrorMetadata(S, item, ioOk) ==
  IF ioOk THEN [S EXCEPT !.errorRecords = BagAdd(@, item.messageId)] ELSE S

\* ------------------------------------------------------- _processItem
\* HandleFailure as it would be with the retry test written <= instead of <.
HandleFailureRetryingOnceMore(S, item, ioOk) ==
  LET id == item.messageId
      S1 == IF item.retries <= retryAttempts
            THEN LET retried == [item EXCEPT !.retries = @ + 1]
                 IN [S EXCEPT !.stats.retries = @ + 1,
                              !.timers = @ \cup
                                {[item |-> retried,
                                  delay |-> retryDelayMs * Pow2(retried.retries - 1),
                                  waited |-> 0]}]
            ELSE _saveErrorMetadata(
                   _recordFailure(
                     [S EXCEPT !.states = SetState(@, id, MEDIA_STATES.ERROR, NoResult),
                               !.stats.errors = @ + 1]),
                   item, ioOk)
  IN [S1 EXCEPT !.activeDownloads = @ \ {id}, !.stats.processed = @ + 1]

\* HandleFailure as it would be with _recordFailure called for every failed
\* attempt, before the retry test.
HandleFailureRecordingEveryFailure(S, item, ioOk) ==
  LET id == item.messageId
      S1 == IF item.retries < retryAttempts
            THEN LET retried == [item EXCEPT !.retries = @ + 1]
                 IN [_recordFailure(S) EXCEPT
                              !.stats.retries = @ + 1,
                              !.timers = @ \cup
                                {[item |-> retried,
                                  delay |-> retryDelayMs * Pow2(retried.retries - 1),
                                  waited |-> 0]}]
            ELSE _saveErrorMetadata(
                   _recordFailure(
                     [S EXCEPT !.states = SetState(@, id, MEDIA_STATES.ERROR, NoResult),
                               !.stats.errors = @ + 1]),
                   item, ioOk)
  IN [S1 EXCEPT !.activeDownloads = @ \ {id}, !.stats.processed = @ + 1]

\* The catch and finally blocks of _processItem for a failed attempt.
HandleFailure(S, item, ioOk) ==
  LET id == item.messageId
      S1 == IF item.retries < retryAttempts
            THEN LET retried == [item EXCEPT !.retries = @ + 1]
                 IN [S EXCEPT !.stats.retries = @ + 1,
                              !.timers = @ \cup
                                {[item |-> retried,
                                  delay |-> retryDelayMs * Pow2(retried.retries - 1),
                                  waited |-> 0]}]
            ELSE _saveErrorMetadata(
                   _recordFailure(
                     [S EXCEPT !.states = SetState(@, id, MEDIA_STATES.ERROR, NoResult),
                               !.stats.errors = @ + 1]),
                   item, ioOk)
  IN [S1 EXCEPT !.activeDownloads = @ \ {id}, !.stats.processed = @ + 1]

\* HandleSuccess as it would be with stats.processed counted in the try
\* block as well as in the finally block.
HandleSuccessCountingTwice(S, item, data, metaOk) ==
  LET id == item.messageId
      raw == item.rawData
      file == [messageId |-> id, data |-> data, filehash |-> raw.filehash]
      meta == [messageId |-> id, downloaded |-> TRUE,
               size |-> getActualSize(data), expectedSize |-> raw.size,
               verified |-> (enableIntegrityCheck /\ raw.filehash # "")]
      S1 == [S EXCEPT !.files = BagAdd(@, file),
                      !.sidecars = IF metaOk THEN BagAdd(@, meta) ELSE @]
      S2 == _recordSuccess(
              [S1 EXCEPT !.states = SetState(@, id, MEDIA_STATES.DOWNLOADED, Result(data, raw.filehash)),
                         !.stats.downloaded = @ + 1,
                         !.stats.processed = @ + 1])
  IN [S2 EXCEPT !.activeDownloads = @ \ {id}, !.stats.processed = @ + 1]

\* The success branch and the finally block of _processItem, after
\* _downloadMedia has written the file (and tried to write the sidecar).
HandleSuccess(S, item, data, metaOk) ==
  LET id == item.messageId
      raw == item.rawData
      file == [messageId |-> id, data |-> data, filehash |-> raw.filehash]
      meta == [messageId |-> id, downloaded |-> TRUE,
               size |-> getActualSize(data), expectedSize |-> raw.size,
               verified |-> (enableIntegrityCheck /\ raw.filehash # "")]
      S1 == [S EXCEPT !.files = BagAdd(@, file),
                      !.sidecars = IF metaOk THEN BagAdd(@, meta) ELSE @]
      S2 == _recordSuccess(
              [S1 EXCEPT !.states = SetState(@, id, MEDIA_STATES.DOWNLOADED, Result(data, raw.filehash)),
                         !.stats.downloaded = @ + 1])
  IN [S2 EXCEPT !.activeDownloads = @ \ {id}, !.stats.processed = @ + 1]

Worker(item, pc, attempt, media) ==
  [item |-> item, pc |-> pc, attempt |-> attempt, media |-> media, waited |-> 0]

\* _processItem up to its first await, including the synchronous start of
\* _downloadMedia and downloader.downloadMedia. A call that resolves without
\* I/O leaves a worker at "null" (downloadMedia returned null), which
\* RunMicrotasks completes in the same macrotask.
_processItem(S, item) ==
  LET id == item.messageId
      raw == item.rawData
      S1 == [S EXCEPT !.activeDownloads = @ \cup {id},
                      !.states = SetState(@, id, MEDIA_STATES.DOWNLOADING, NoResult),
                      !.dlStats.downloads = @ + 1]
      cached == IF enableDeduplication THEN _checkCache(S1.downloadCache, raw) ELSE NoMedia
  IN IF \/ ~_validateMessage(raw)
        \/ (raw.size # 0 /\ raw.size > maxFileSizeBytes)
        \/ _isExpiredStatus(raw)
     THEN [S1 EXCEPT !.dlStats.failures = @ + 1,
                     !.workers = @ \cup {Worker(item, "null", 0, NoMedia)}]
     ELSE IF cached # NoMedia
     THEN [S1 EXCEPT !.dlStats.cached = @ + 1,
                     !.workers = @ \cup {Worker(item, "save", 0, cached)}]
     ELSE IF retryAttempts < 1
     THEN [S1 EXCEPT !.dlStats.failures = @ + 2,
                     !.workers = @ \cup {Worker(item, "null", 0, NoMedia)}]
     ELSE [S1 EXCEPT !.workers = @ \cup {Worker(item, "fetch", 1, NoMedia)}]

RECURSIVE RunMicrotasks(_, _)
RunMicrotasks(S, ioOk) ==
  IF \E w \in S.workers : w.pc = "null"
  THEN LET w == CHOOSE w \in S.workers : w.pc = "null"
       IN RunMicrotasks(HandleFailure([S EXCEPT !.workers = @ \ {w}], w.item, ioOk), ioOk)
  ELSE S

\* ------------------------------------------------------- _processQueue
\* for (i = 0; i < batchSize && activeDownloads.size < concurrentDownloads; i++)
\*   { if (queue.length === 0) break; batch.push(queue.shift()); }
RECURSIVE TakeBatch(_, _, _, _, _)
TakeBatch(q, batch, i, batchSize, active) ==
  IF i < batchSize /\ Cardinality(active) < concurrentDownloads /\ Len(q) # 0
  THEN TakeBatch(Tail(q), Append(batch, Head(q)), i + 1, batchSize, active)
  ELSE <<q, batch>>

RECURSIVE StartBatch(_, _)
StartBatch(S, batch) ==
  IF Len(batch) = 0 THEN S
  ELSE StartBatch(_processItem(S, Head(batch)), Tail(batch))

\* ProcessQueueIteration as it would be with the batch read by index,
\* queue[i], instead of taken out by queue.shift().
ProcessQueueIterationWithoutShift(S, highMemory) ==
  IF ~(Len(S.queue) > 0 \/ Cardinality(S.activeDownloads) > 0)
  THEN [S EXCEPT !.processing = FALSE, !.loops = @ - 1]
  ELSE IF pauseOnHighMemoryMB # 0 /\ highMemory THEN S
  ELSE LET batchSize == Min(batchProcessSize, Len(S.queue))
           taken == TakeBatch(S.queue, <<>>, 0, batchSize, S.activeDownloads)
       IN StartBatch(S, taken[2])

\* ProcessQueueIteration as it would be without the memory test.
ProcessQueueIterationIgnoringMemory(S, highMemory) ==
  IF ~(Len(S.queue) > 0 \/ Cardinality(S.activeDownloads) > 0)
  THEN [S EXCEPT !.processing = FALSE, !.loops = @ - 1]
  ELSE LET batchSize == Min(batchProcessSize, Len(S.queue))
           taken == TakeBatch(S.queue, <<>>, 0, batchSize, S.activeDownloads)
       IN StartBatch([S EXCEPT !.queue = taken[1]], taken[2])

\* One evaluation of the while condition of _processQueue and, when it holds,
\* one loop body up to its sleep.
ProcessQueueIteration(S, highMemory) ==
  IF ~(Len(S.queue) > 0 \/ Cardinality(S.activeDownloads) > 0)
  THEN [S EXCEPT !.processing = FALSE, !.loops = @ - 1]
  ELSE IF pauseOnHighMemoryMB # 0 /\ highMemory THEN S
  ELSE LET batchSize == Min(batchProcessSize, Len(S.queue))
           taken == TakeBatch(S.queue, <<>>, 0, batchSize, S.activeDownloads)
       IN StartBatch([S EXCEPT !.queue = taken[1]], taken[2])

\* _processQueue as it would be without the test of this.processing.
_processQueueUnguarded(S, highMemory) ==
  ProcessQueueIteration([S EXCEPT !.processing = TRUE, !.loops = @ + 1], highMemory)

\* _processQueue up to its first sleep: the guard and the first iteration.
_processQueue(S, highMemory) ==
  IF S.processing THEN S
  ELSE ProcessQueueIteration([S EXCEPT !.processing = TRUE, !.loops = @ + 1], highMemory)

\* ------------------------------------------------------- admission
\* _enqueue as it would be with the bound tested by > instead of >=.
_enqueueOffByOne(S, item, highMemory) ==
  IF Len(S.queue) > maxQueueSize THEN <<FALSE, S>>
  ELSE LET cb == _checkCircuitBreaker(S)
       IN IF ~cb[1] THEN <<FALSE, cb[2]>>
          ELSE LET S1 == [cb[2] EXCEPT
                            !.queue = Append(@, item),
                            !.states = SetState(@, item.messageId, MEDIA_STATES.PENDING, NoResult),
                            !.stats.queued = @ + 1]
               IN <<TRUE, _processQueue(S1, highMemory)>>

\* Returns <<enqueued, state after the call>>.
_enqueue(S, item, highMemory) ==
  IF Len(S.queue) >= maxQueueSize THEN <<FALSE, S>>
  ELSE LET cb == _checkCircuitBreaker(S)
       IN IF ~cb[1] THEN <<FALSE, cb[2]>>
          ELSE LET S1 == [cb[2] EXCEPT
                            !.queue = Append(@, item),
                            !.states = SetState(@, item.messageId, MEDIA_STATES.PENDING, NoResult),
                            !.stats.queued = @ + 1]
               IN <<TRUE, _processQueue(S1, highMemory)>>

\* _isDuplicate as it would be without the test of this.states.
_isDuplicateByFingerprintOnly(S, messageId, rawData) ==
  LET deduplicationKey == _generateDeduplicationKey(rawData)
  IN IF deduplicationKey \in DOMAIN S.deduplicationCache THEN <<TRUE, S>>
     ELSE <<FALSE, [S EXCEPT !.deduplicationCache = MapSet(@, deduplicationKey, messageId)]>>

\* _isDuplicate as it would be without the test of the deduplication cache.
_isDuplicateByIdentityOnly(S, messageId, rawData) ==
  LET deduplicationKey == _generateDeduplicationKey(rawData)
  IN IF messageId \in DOMAIN S.states THEN <<TRUE, S>>
     ELSE <<FALSE, [S EXCEPT !.deduplicationCache = MapSet(@, deduplicationKey, messageId)]>>

\* Returns <<isDuplicate, state after the call>>.
_isDuplicate(S, messageId, rawData) ==
  LET deduplicationKey == _generateDeduplicationKey(rawData)
  IN IF messageId \in DOMAIN S.states THEN <<TRUE, S>>
     ELSE IF deduplicationKey \in DOMAIN S.deduplicationCache THEN <<TRUE, S>>
     ELSE <<FALSE, [S EXCEPT !.deduplicationCache = MapSet(@, deduplicationKey, messageId)]>>

\* The QueueItems held by the queue, a worker or a retry timer.
LiveItems(S) ==
  {S.queue[i] : i \in 1..Len(S.queue)} \cup {w.item : w \in S.workers}
    \cup {t.item : t \in S.timers}

\* Two QueueItems of one messageId are different objects: obj tells them apart.
NewObj(S, messageId) ==
  LET used == {it.obj : it \in {x \in LiveItems(S) : x.messageId = messageId}}
  IN CHOOSE n \in 1..(Cardinality(used) + 1) :
       n \notin used /\ \A m \in 1..(n - 1) : m \in used

\* Returns <<localMedia of the returned event, state after the call>>.
maybeEnrich(S, rawData, highMemory) ==
  IF ~Admissible(rawData) THEN <<"none", S>>
  ELSE LET messageId == _getMessageId(rawData)
           dup == IF enableDeduplication THEN _isDuplicate(S, messageId, rawData)
                  ELSE <<FALSE, S>>
       IN IF dup[1]
          THEN <<"deduplicated", [dup[2] EXCEPT !.stats.deduplicated = @ + 1]>>
          ELSE LET enq == _enqueue(dup[2],
                                   [messageId |-> messageId, rawData |-> rawData,
                                    retries |-> 0, obj |-> NewObj(dup[2], messageId)],
                                   highMemory)
               IN <<IF enq[1] THEN "queued" ELSE "none", enq[2]>>

\* ---------------------------------------------------------------- actions
\* What the environment can make of a step: the disk writes of a step that
\* writes a failure record can fail.
WritesErrorRecord(item) == item.retries >= retryAttempts

IoChoices(mayWrite) == IF mayWrite /\ faultsLeft > 0 THEN BOOLEAN ELSE {TRUE}

\* A step in which the environment failed n times.
Faults(n) == faultsLeft' = faultsLeft - n

\* A dispatch fails without I/O and exhausts the item's retries.
DispatchWritesErrorRecord ==
  \E i \in 1..Len(queue) :
    ~_validateMessage(queue[i].rawData) /\ WritesErrorRecord(queue[i])

MaybeEnrich(rawData, highMemory, ioOk) ==
  /\ callsLeft > 0
  /\ rawData \in inputs
  /\ LET r == maybeEnrich(Cur, rawData, highMemory)
     IN /\ Commit(RunMicrotasks(r[2], ioOk))
        /\ lastReturn' = r[1]
  /\ callsLeft' = callsLeft - 1
  /\ seen' = seen \cup {rawData}
  /\ Faults(IF ioOk THEN 0 ELSE 1)

\* The _processQueue loop wakes from its sleep.
SchedulerTick(highMemory, ioOk) ==
  /\ loops > 0
  /\ Commit(RunMicrotasks(ProcessQueueIteration(Cur, highMemory), ioOk))
  /\ Faults(IF ioOk THEN 0 ELSE 1)
  /\ UNCHANGED <<lastReturn, callsLeft, seen>>

\* What is stored remotely for an event, and what a corrupted transfer yields.
Content(rawData) == IF rawData.mediaKey = "k2" THEN "b2" ELSE "b1"
Corrupted(data) == IF data = "b1" THEN "b2" ELSE "b1"

\* downloadMedia gives up: "All attempts failed" is counted, thrown, caught by
\* the outer catch and counted again; null is returned and _processItem fails.
AllAttemptsFailed(S, w, ioOk) ==
  HandleFailure([S EXCEPT !.dlStats.failures = @ + 2, !.workers = @ \ {w}], w.item, ioOk)

\* _attemptDownload: the strategies in order of preference, and the one an
\* attempt uses; a worker at "fetch" awaits the strategy of its attempt.
strategies == <<"message.downloadMedia", "Store.downloadMedia", "direct", "fallback">>
strategyIndex(attempt) == (attempt - 1) % Len(strategies)
_attemptDownload(attempt) == strategies[strategyIndex(attempt) + 1]

\* The catch block inside the attempt loop of downloadMedia.
AttemptError(S, w, ioOk) ==
  IF w.attempt < retryAttempts
  THEN [S EXCEPT !.dlStats.retries = @ + 1,
                 !.workers = (@ \ {w}) \cup {[w EXCEPT !.pc = "sleep", !.waited = 0]}]
  ELSE AllAttemptsFailed(S, w, ioOk)

\* AttemptSettled as it would be with the integrity check made whenever
\* enableIntegrityCheck is set, whether or not the event declares a hash.
AttemptSettledAlwaysVerifying(S, w, outcome, ioOk) ==
  LET raw == w.item.rawData
      check == enableIntegrityCheck
      S1 == IF check THEN [S EXCEPT !.dlStats.integrityChecks = @ + 1] ELSE S
  IN IF outcome = "throw" THEN AttemptError(S, w, ioOk)
     ELSE IF outcome = "fail"
     THEN IF w.attempt < retryAttempts
          THEN [S EXCEPT !.workers = (@ \ {w}) \cup {[w EXCEPT !.attempt = @ + 1]}]
          ELSE AllAttemptsFailed(S, w, ioOk)
     ELSE IF check /\ ~validateIntegrity(outcome, raw.filehash)
     THEN AttemptError([S1 EXCEPT !.dlStats.integrityFailures = @ + 1], w, ioOk)
     ELSE [S1 EXCEPT
             !.downloadCache = IF enableDeduplication
                               THEN _cacheResult(@, raw, outcome) ELSE @,
             !.dlStats.successes = @ + 1,
             !.workers = (@ \ {w}) \cup {[w EXCEPT !.pc = "save", !.media = outcome]}]

\* The attempt loop of downloadMedia from the point where the attempt's
\* strategy settled: page.evaluate rejected ("throw"), resolved with
\* {success: false} ("fail"), or resolved with data.
AttemptSettled(S, w, outcome, ioOk) ==
  LET raw == w.item.rawData
      check == enableIntegrityCheck /\ raw.filehash # ""
      S1 == IF check THEN [S EXCEPT !.dlStats.integrityChecks = @ + 1] ELSE S
  IN IF outcome = "throw" THEN AttemptError(S, w, ioOk)
     ELSE IF outcome = "fail"
     THEN IF w.attempt < retryAttempts
          THEN [S EXCEPT !.workers = (@ \ {w}) \cup {[w EXCEPT !.attempt = @ + 1]}]
          ELSE AllAttemptsFailed(S, w, ioOk)
     ELSE IF check /\ ~validateIntegrity(outcome, raw.filehash)
     THEN AttemptError([S1 EXCEPT !.dlStats.integrityFailures = @ + 1], w, ioOk)
     ELSE [S1 EXCEPT
             !.downloadCache = IF enableDeduplication
                               THEN _cacheResult(@, raw, outcome) ELSE @,
             !.dlStats.successes = @ + 1,
             !.workers = (@ \ {w}) \cup {[w EXCEPT !.pc = "save", !.media = outcome]}]

\* The fetch of a worker's current attempt settles.
FetchDone(w, result, ioOk) ==
  /\ w \in workers
  /\ w.pc = "fetch"
  /\ result \in {"ok"} \cup (IF faultsLeft > 0 THEN {"corrupt", "fail", "throw"} ELSE {})
  /\ ioOk \/ result # "ok"
  /\ LET data == Content(w.item.rawData)
         outcome == IF result = "ok" THEN data
                    ELSE IF result = "corrupt" THEN Corrupted(data) ELSE result
     IN Commit(AttemptSettled(Cur, w, outcome, ioOk))
  /\ Faults(IF result = "ok" THEN 0 ELSE 1)
  /\ UNCHANGED <<lastReturn, callsLeft, seen>>

\* The backoff sleep between two attempts of downloadMedia ends.
BackoffDone(w) ==
  /\ w \in workers
  /\ w.pc = "sleep"
  /\ w.waited >= retryDelayMs * Pow2(w.attempt - 1)
  /\ workers' = (workers \ {w}) \cup {[w EXCEPT !.pc = "fetch", !.attempt = @ + 1, !.waited = 0]}
  /\ UNCHANGED <<webhook, mediaQueue, loops, probes, config, inputs, callsLeft, faultsLeft, queue, states, activeDownloads,
                 processing, deduplicationCache, stats, circuitBreaker, downloadCache,
                 dlStats, timers, files, sidecars, errorRecords, lastReturn, seen>>

\* messageMedia.save(filePath) settles; on success _saveMetadata writes the
\* sidecar (a failed sidecar write is logged and swallowed).
SaveDone(w, fileOk, metaOk, ioOk) ==
  /\ w \in workers
  /\ w.pc = "save"
  /\ (fileOk /\ metaOk /\ ioOk) \/ faultsLeft > 0
  /\ fileOk => ioOk
  /\ ~fileOk => metaOk
  /\ LET S == [Cur EXCEPT !.workers = @ \ {w}]
     IN Commit(IF fileOk THEN HandleSuccess(S, w.item, w.media, metaOk)
               ELSE HandleFailure(S, w.item, ioOk))
  /\ Faults(IF fileOk /\ metaOk THEN 0 ELSE 1)
  /\ UNCHANGED <<lastReturn, callsLeft, seen>>

\* setTimeout(() => this.queue.push(item), delay) fires.
RetryTimerFire(t) ==
  /\ t \in timers
  /\ t.waited >= t.delay
  /\ queue' = Append(queue, t.item)
  /\ timers' = timers \ {t}
  /\ UNCHANGED <<webhook, mediaQueue, loops, probes, config, inputs, callsLeft, faultsLeft, states, activeDownloads,
                 processing, deduplicationCache, stats, circuitBreaker, downloadCache,
                 dlStats, workers, files, sidecars, errorRecords, lastReturn, seen>>

\* cleanup() as it would be without the test of the timestamp.
CleanupWhateverTheAge ==
  LET purged == {id \in DOMAIN states :
                   states[id].state \in {MEDIA_STATES.DOWNLOADED, MEDIA_STATES.ERROR}}
  IN /\ states' = [id \in (DOMAIN states) \ purged |-> states[id]]
     /\ deduplicationCache' =
          [k \in (DOMAIN deduplicationCache) \ purged |-> deduplicationCache[k]]
     /\ seen' = {e \in seen : _generateDeduplicationKey(e) \notin purged}
     /\ UNCHANGED <<webhook, mediaQueue, loops, probes, config, inputs, callsLeft,
                    faultsLeft, queue, activeDownloads, processing, stats,
                    circuitBreaker, downloadCache, dlStats, workers, timers, files,
                    sidecars, errorRecords, lastReturn>>

\* cleanup()
Cleanup ==
  LET purged == {id \in DOMAIN states :
                   /\ states[id].state \in {MEDIA_STATES.DOWNLOADED, MEDIA_STATES.ERROR}
                   /\ states[id].age > cleanupCompletedAfterMs}
  IN /\ states' = [id \in (DOMAIN states) \ purged |-> states[id]]
     /\ deduplicationCache' =
          [k \in (DOMAIN deduplicationCache) \ purged |-> deduplicationCache[k]]
     /\ seen' = {e \in seen : _generateDeduplicationKey(e) \notin purged}
     /\ UNCHANGED <<webhook, mediaQueue, loops, probes, config, inputs, callsLeft, faultsLeft, queue, activeDownloads,
                    processing, stats, circuitBreaker, downloadCache, dlStats, workers,
                    timers, files, sidecars, errorRecords, lastReturn>>

\* One millisecond passes.
AdvanceTime ==
  /\ timers' = {[t EXCEPT !.waited = Min(@ + 1, t.delay)] : t \in timers}
  /\ workers' = {IF w.pc = "sleep"
                 THEN [w EXCEPT !.waited = Min(@ + 1, retryDelayMs * Pow2(w.attempt - 1))]
                 ELSE w : w \in workers}
  /\ circuitBreaker' =
       [circuitBreaker EXCEPT !.sinceFailure = Min(@ + 1, circuitBreakerResetMs)]
  /\ states' = [id \in DOMAIN states |->
                  [states[id] EXCEPT !.age = Min(@ + 1, cleanupCompletedAfterMs + 1)]]
  /\ UNCHANGED <<webhook, mediaQueue, loops, probes, config, inputs, callsLeft, faultsLeft, queue, activeDownloads,
                 processing, deduplicationCache, stats, downloadCache, dlStats, files,
                 sidecars, errorRecords, lastReturn, seen>>

Next ==
  \/ \E e \in inputs, highMemory \in BOOLEAN, ioOk \in IoChoices(DispatchWritesErrorRecord) :
       MaybeEnrich(e, highMemory, ioOk)
  \/ \E highMemory \in BOOLEAN, ioOk \in IoChoices(DispatchWritesErrorRecord) :
       SchedulerTick(highMemory, ioOk)
  \/ \E w \in workers, result \in {"ok", "corrupt", "fail", "throw"} :
       \E ioOk \in IoChoices(WritesErrorRecord(w.item)) : FetchDone(w, result, ioOk)
  \/ \E w \in workers : BackoffDone(w)
  \/ \E w \in workers, fileOk \in BOOLEAN, metaOk \in BOOLEAN :
       \E ioOk \in IoChoices(WritesErrorRecord(w.item)) : SaveDone(w, fileOk, metaOk, ioOk)
  \/ \E t \in timers : RetryTimerFire(t)
  \/ Cleanup
  \/ AdvanceTime

\* ---------------------------------------------------------------- specifications
\* The numeric options, set small.
Config(dedup, attempts) ==
  [enableDeduplication |-> dedup, concurrentDownloads |-> 2, maxQueueSize |-> 2,
   retryAttempts |-> attempts, retryDelayMs |-> 1, batchProcessSize |-> 3,
   circuitBreakerThreshold |-> 2, circuitBreakerResetMs |-> 1,
   cleanupCompletedAfterMs |-> 0, enabled |-> TRUE, allowedMimeTypes |-> <<>>]

\* A burst of events of three identities, deduplication on (the default), in
\* an environment that fails at most once.
BurstCalls == 3
BurstFaults == 1

Init == Constructed(Config(TRUE, 2), Events, BurstCalls, BurstFaults)

Spec == Init /\ [][Next]_vars

\* Two events of one identity, with and without deduplication, in an
\* environment that can fail every attempt made for an item.
RetryCalls == 2
RetryFaults == 4

RetryInit ==
  \E dedup \in BOOLEAN : Constructed(Config(dedup, 2), {EvA, EvD}, RetryCalls, RetryFaults)

RetrySpec == RetryInit /\ [][Next]_vars

\* Events the downloader refuses and events it fetches, deduplication off, so
\* that an event can be admitted again and again: items run out of retries
\* and record breaker failures while others succeed.
BreakerCalls == 4
BreakerFaults == 1

BreakerInit == Constructed(Config(FALSE, 2), {EvBad, EvC}, BreakerCalls, BreakerFaults)

BreakerSpec == BreakerInit /\ [][Next]_vars

\* Eligible and ineligible events delivered to a manager with the default
\* options, to a disabled manager, and to a manager with a MIME allow-list.
AdmissionCalls == 3
AdmissionFaults == 1

AdmissionInit ==
  \E cfg \in {Config(TRUE, 2),
               [Config(TRUE, 2) EXCEPT !.enabled = FALSE],
               [Config(TRUE, 2) EXCEPT !.allowedMimeTypes = <<"video/mp4">>]} :
    Constructed(cfg, {EvA, EvC} \cup Ineligible, AdmissionCalls, AdmissionFaults)

AdmissionSpec == AdmissionInit /\ [][Next]_vars

\* One event of each of two identities in an environment that fails at most
\* once. The event loop is fair to whatever is scheduled: the scheduler's
\* sleep ends, every fetch and save settles, every backoff and retry timer
\* fires, time passes. Memory pressure does not last. Nothing obliges the
\* event source to deliver another event.
FairCalls == 2
FairFaults == 1

FairInit == Constructed(Config(TRUE, 2), {EvA, EvC}, FairCalls, FairFaults)

Fairness ==
  /\ WF_vars(\E ioOk \in IoChoices(DispatchWritesErrorRecord) : SchedulerTick(FALSE, ioOk))
  /\ \A id \in Ids :
       /\ WF_vars(\E w \in workers, result \in {"ok", "corrupt", "fail", "throw"} :
                    \E ioOk \in IoChoices(WritesErrorRecord(w.item)) :
                      w.item.messageId = id /\ FetchDone(w, result, ioOk))
       /\ WF_vars(\E w \in workers : w.item.messageId = id /\ BackoffDone(w))
       /\ WF_vars(\E w \in workers, fileOk \in BOOLEAN, metaOk \in BOOLEAN :
                    \E ioOk \in IoChoices(WritesErrorRecord(w.item)) :
                      w.item.messageId = id /\ SaveDone(w, fileOk, metaOk, ioOk))
       /\ WF_vars(\E t \in timers : t.item.messageId = id /\ RetryTimerFire(t))
  /\ WF_vars(AdvanceTime)

FairSpec == FairInit /\ [][Next]_vars /\ Fairness

\* ---------------------------------------------------------------- properties
InFlight(id) ==
  id \in DOMAIN states
    /\ states[id].state \in {MEDIA_STATES.PENDING, MEDIA_STATES.DOWNLOADING}

Terminal(id) ==
  id \in DOMAIN states
    /\ states[id].state \in {MEDIA_STATES.DOWNLOADED, MEDIA_STATES.ERROR}

\* The number of QueueItems of an identity in the queue, at a worker or on a
\* retry timer.
LiveCount(id) ==
  Cardinality({i \in 1..Len(queue) : queue[i].messageId = id})
    + Cardinality({w \in workers : w.item.messageId = id})
    + Cardinality({t \in timers : t.item.messageId = id})

\* C1: in every reachable state the number of identities in activeDownloads
\* (items being processed by workers at the same time) is at most
\* concurrentDownloads.
C1_ConcurrencyBound == Cardinality(activeDownloads) <= concurrentDownloads

\* C2: under fairness, every admitted item (ItemState Pending or Downloading)
\* eventually has ItemState Downloaded or Error, also when it was in retry
\* backoff while the queue and the worker pool became empty.
C2_EventuallyTerminal == \A id \in Ids : InFlight(id) ~> Terminal(id)

\* C5: in every reachable state the queue holds at most maxQueueSize items,
\* whether appended by admissions or re-inserted by retry timers.
C5_QueueBounded == Len(queue) <= maxQueueSize

TotalLive == Len(queue) + Cardinality(workers) + Cardinality(timers)

\* A call of maybeEnrich with event e.
Calls(e) ==
  \E highMemory \in BOOLEAN, ioOk \in IoChoices(DispatchWritesErrorRecord) :
    MaybeEnrich(e, highMemory, ioOk)

\* The call creates no QueueItem and leaves every ItemState as it is.
AdmitsNothing ==
  /\ queue' = queue
  /\ states' = states
  /\ workers' = workers
  /\ timers' = timers
  /\ stats'.queued = stats.queued

C3_OneItem ==
  enableDeduplication =>
    /\ \A id \in Ids :
         /\ LiveCount(id) <= 1
         /\ InFlight(id) => LiveCount(id) = 1
         /\ Terminal(id) => LiveCount(id) = 0
    /\ stats.queued = TotalLive + stats.downloaded + stats.errors

C3_SecondCall ==
  \A e \in inputs :
    (enableDeduplication /\ InFlight(e.id) /\ Calls(e))
      => (AdmitsNothing /\ lastReturn' = "deduplicated")

\* C3: with deduplication enabled, a maybeEnrich call for an identity whose
\* ItemState is Pending or Downloading appends nothing and does not reset the
\* ItemState: the identity has exactly one QueueItem while in flight and none
\* once terminal, and every admission ends in at most one terminal outcome.
C3_IdempotentAdmission == C3_OneItem /\ [][C3_OneItem' /\ C3_SecondCall]_vars

\* Both events of identity m1 were delivered while m1 was in flight.
C3_Witness ==
  /\ enableDeduplication
  /\ {EvA, EvD} \subseteq seen
  /\ InFlight("m1")
  /\ LiveCount("m1") = 1
  /\ stats.queued = 1
  /\ lastReturn = "deduplicated"

\* The fingerprint fields of two events: key, hash, path, size.
SameFingerprintFields(e, f) ==
  /\ e.mediaKey = f.mediaKey
  /\ (IF e.mediaHash # "" THEN e.mediaHash ELSE e.filehash)
       = (IF f.mediaHash # "" THEN f.mediaHash ELSE f.filehash)
  /\ e.directPath = f.directPath
  /\ e.size = f.size

\* C4 as stated: with deduplication enabled, a maybeEnrich call with an event
\* whose fingerprint fields equal those of an earlier event of a different
\* identity (not purged since) returns {deduplicated: true} and creates no
\* QueueItem and no ItemState.
C4_SeenFingerprintBlocks ==
  [][\A e \in inputs :
       (/\ enableDeduplication
        /\ \E f \in seen : f.id # e.id /\ SameFingerprintFields(e, f)
        /\ Calls(e))
       => (AdmitsNothing /\ lastReturn' = "deduplicated")]_vars

C4_OnlyRecordedDispatched ==
  enableDeduplication =>
    \A it \in LiveItems(Cur) :
      LET k == _generateDeduplicationKey(it.rawData)
      IN k \in DOMAIN deduplicationCache => deduplicationCache[k] = it.messageId

C4_RecordedCall ==
  \A e \in inputs :
    (/\ enableDeduplication
     /\ Admissible(e)
     /\ _generateDeduplicationKey(e) \in DOMAIN deduplicationCache
     /\ Calls(e))
    => (AdmitsNothing /\ lastReturn' = "deduplicated")

\* C4 amended: with deduplication enabled, while a fingerprint has an entry in
\* the deduplication cache (made by a call that was not itself rejected as a
\* duplicate), every call with an eligible event of that fingerprint returns
\* {deduplicated: true} and creates no QueueItem and no ItemState, and only
\* the identity the entry names is held by the queue, a worker or a timer.
C4_RecordedFingerprintBlocks ==
  C4_OnlyRecordedDispatched /\ [][C4_OnlyRecordedDispatched' /\ C4_RecordedCall]_vars

\* EvB (identity m2) was rejected for the fingerprint recorded for EvA (m1).
C4_Witness ==
  /\ enableDeduplication
  /\ {EvA, EvB} \subseteq seen
  /\ _generateDeduplicationKey(EvB) \in DOMAIN deduplicationCache
  /\ deduplicationCache[_generateDeduplicationKey(EvB)] = "m1"
  /\ "m2" \notin DOMAIN states
  /\ "m1" \in DOMAIN states
  /\ lastReturn = "deduplicated"

\* C6: when the queue already holds maxQueueSize items, a maybeEnrich call
\* with an eligible event that is not a duplicate leaves the queue, the
\* ItemState map and stats.queued unchanged and returns the event without a
\* localMedia field.
C6_FullQueueRejects ==
  [][\A e \in inputs :
       (/\ Len(queue) >= maxQueueSize
        /\ Admissible(e)
        /\ ~(enableDeduplication /\ _isDuplicate(Cur, _getMessageId(e), e)[1])
        /\ Calls(e))
       => (AdmitsNothing /\ lastReturn' = "none")]_vars

\* The third event met a queue holding the first two and was dropped.
C6_Witness ==
  /\ Len(queue) = maxQueueSize
  /\ stats.queued = maxQueueSize
  /\ Cardinality(seen) = maxQueueSize + 1
  /\ stats.deduplicated = 0
  /\ lastReturn = "none"

\* Nothing is scheduled: the scheduler loop has exited, no attempt is in
\* flight and no retry timer is pending.
Quiescent == ~processing /\ workers = {} /\ timers = {}

\* C7: an item whose every attempt fails is retried exactly retryAttempts
\* times and then has ItemState Error. As a final result: once nothing is
\* scheduled any more, the one item admitted, none of whose attempts
\* succeeded, has ItemState Error after exactly retryAttempts retries.
C7_FailingItemEndsInError ==
  (Quiescent /\ stats.queued = 1 /\ stats.downloaded = 0)
    => /\ \E id \in DOMAIN states : states[id].state = MEDIA_STATES.ERROR
       /\ stats.retries = retryAttempts
       /\ dlStats.downloads = retryAttempts + 1

\* C8: in every reachable state the retry count of every QueueItem, in the
\* queue, at a worker or on a retry timer, is between 0 and retryAttempts.
C8_RetriesBounded ==
  \A it \in LiveItems(Cur) : 0 <= it.retries /\ it.retries <= retryAttempts

\* An item waits for its last retry.
C8_Witness == \E t \in timers : t.item.retries = retryAttempts

\* C9 as stated: an ItemState that is Downloaded or Error stays as it is
\* until cleanup() removes the entry, whatever is called or completes.
C9_TerminalStays ==
  [][\A id \in Ids :
       (Terminal(id) /\ id \in DOMAIN states')
         => states'[id].state = states[id].state]_vars

\* C9 amended: with deduplication enabled, an ItemState that is Downloaded or
\* Error stays as it is until cleanup() removes the entry, whatever is called
\* or completes.
C9_TerminalStaysWithDeduplication ==
  [][\A id \in Ids :
       (enableDeduplication /\ Terminal(id) /\ id \in DOMAIN states')
         => states'[id].state = states[id].state]_vars

\* Identity m1 ended in Error and a later event of m1 was turned away.
C9_Witness ==
  /\ enableDeduplication
  /\ "m1" \in DOMAIN states
  /\ states["m1"].state = MEDIA_STATES.ERROR
  /\ {EvA, EvD} \subseteq seen
  /\ stats.queued = 1
  /\ stats.errors = 1
  /\ lastReturn = "deduplicated"
  /\ callsLeft = 0

\* Every persisted binary file, and every Downloaded entry, of an event that
\* declared a hash holds bytes with that digest.
C10_PersistedVerified ==
  /\ \A f \in DOMAIN files :
       f.filehash # "" => Sha256Base64(f.data) = f.filehash
  /\ \A id \in DOMAIN states :
       (states[id].state = MEDIA_STATES.DOWNLOADED /\ states[id].result.filehash # "")
         => Sha256Base64(states[id].result.data) = states[id].result.filehash

\* A fetch that delivers bytes of another digest than the declared hash
\* counts as an integrity failure, writes no file and makes nothing Downloaded.
C10_MismatchFails ==
  \A w \in workers :
    (/\ w.item.rawData.filehash # ""
     /\ \E ioOk \in IoChoices(WritesErrorRecord(w.item)) : FetchDone(w, "corrupt", ioOk))
    => /\ files' = files
       /\ stats'.downloaded = stats.downloaded
       /\ dlStats'.integrityFailures = dlStats.integrityFailures + 1
       /\ dlStats'.successes = dlStats.successes
       /\ \A id \in DOMAIN states' :
            states'[id].state = MEDIA_STATES.DOWNLOADED
              => (id \in DOMAIN states /\ states[id] = states'[id])

ReachesBreakerCheck(e) ==
  /\ e.type # ""
  /\ e.id # ""
  /\ ~(enableDeduplication /\ _isDuplicate(Cur, e.id, e)[1])
  /\ Len(queue) < maxQueueSize
  /\ Calls(e)

\* The step records a failure (an item ran out of retries), a success.
RecordsFailure == stats'.errors > stats.errors
RecordsSuccess == stats'.downloaded > stats.downloaded

BreakerBlocking ==
  /\ circuitBreaker.state = CIRCUIT_BREAKER_STATES.OPEN
  /\ circuitBreaker.sinceFailure < circuitBreakerResetMs

C11_Trips ==
  (RecordsFailure /\ circuitBreaker'.failures >= circuitBreakerThreshold)
    => /\ circuitBreaker'.state = CIRCUIT_BREAKER_STATES.OPEN
       /\ circuitBreaker'.sinceFailure = 0

C11_Checks ==
  \A e \in inputs :
    (circuitBreaker.state = CIRCUIT_BREAKER_STATES.OPEN /\ ReachesBreakerCheck(e))
      => IF circuitBreaker.sinceFailure < circuitBreakerResetMs
         THEN AdmitsNothing /\ lastReturn' = "none" /\ circuitBreaker' = circuitBreaker
         ELSE /\ lastReturn' = "queued"
              /\ stats'.queued = stats.queued + 1
              /\ \/ circuitBreaker'.state = CIRCUIT_BREAKER_STATES.HALF_OPEN
                 \/ RecordsFailure

\* C11: when a recorded failure brings the count of consecutive failures to
\* circuitBreakerThreshold the breaker is Open; a breaker check made less than
\* circuitBreakerResetMs after the last failure returns false, and the first
\* check at or after that moves the breaker to HalfOpen and returns true (the
\* breaker is HalfOpen after the call, unless a dispatch the call started has
\* recorded a failure before the event loop was idle again).
C11_TripAndRecovery == [][C11_Trips /\ C11_Checks]_vars

\* The breaker tripped and, the interval over, an admission made it HalfOpen.
C11_Witness ==
  /\ circuitBreaker.state = CIRCUIT_BREAKER_STATES.HALF_OPEN
  /\ stats.circuitBreakerTrips = 1
  /\ lastReturn = "queued"

\* C12: while the breaker is HalfOpen every further breaker check returns
\* false: only the one call that moved it from Open to HalfOpen is allowed.
C12_OneProbe ==
  [][\A e \in inputs :
       (circuitBreaker.state = CIRCUIT_BREAKER_STATES.HALF_OPEN /\ ReachesBreakerCheck(e))
         => (AdmitsNothing /\ lastReturn' = "none")]_vars

\* C13: a failure recorded while the breaker is HalfOpen moves it to Open.
C13_HalfOpenFailureReopens ==
  [][(circuitBreaker.state = CIRCUIT_BREAKER_STATES.HALF_OPEN /\ RecordsFailure)
       => circuitBreaker'.state = CIRCUIT_BREAKER_STATES.OPEN]_vars

\* C14: a recorded success resets the count of consecutive failures to 0 in
\* every breaker state, and closes a HalfOpen breaker.
C14_SuccessResets ==
  [][RecordsSuccess
       => /\ circuitBreaker'.failures = 0
          /\ circuitBreaker'.successes = circuitBreaker.successes + 1
          /\ circuitBreaker.state = CIRCUIT_BREAKER_STATES.HALF_OPEN
               => circuitBreaker'.state = CIRCUIT_BREAKER_STATES.CLOSED
          /\ circuitBreaker.state # CIRCUIT_BREAKER_STATES.HALF_OPEN
               => circuitBreaker'.state = circuitBreaker.state]_vars

\* The breaker tripped and a success has closed it again.
C14_Witness ==
  /\ circuitBreaker.state = CIRCUIT_BREAKER_STATES.CLOSED
  /\ stats.circuitBreakerTrips >= 1
  /\ circuitBreaker.successes >= 1
  /\ circuitBreaker.failures = 0

\* C15: while the breaker is Open and the reset interval has not elapsed no
\* attempt invokes the fetch driver: no step starts a fetch.
C15_NoFetchWhileOpen ==
  [][BreakerBlocking
       => \A w \in workers' :
            w.pc = "fetch"
              => \E v \in workers :
                   v.item = w.item /\ v.pc = "fetch" /\ v.attempt = w.attempt]_vars

\* C16: when cleanup() purges an identity's terminal ItemState, no entry of
\* the deduplication cache names that identity any more (so that an event
\* with its fingerprint is admitted again).
C16_PurgeRemovesFingerprint ==
  [][\A id \in (DOMAIN states) \ (DOMAIN states') :
       \A k \in DOMAIN deduplicationCache' : deduplicationCache'[k] # id]_vars

\* The event fails one of the admission checks of maybeEnrich.
FailsAdmissionCheck(e) ==
  \/ ~config.enabled
  \/ e.absent
  \/ (e.type = "" /\ e.mediaType = "" /\ e.mimetype = "")
  \/ ~_validateMediaType(IF e.type # "" THEN e.type
                         ELSE IF e.mediaType # "" THEN e.mediaType ELSE e.mimetype)
  \/ (e.size # 0 /\ e.size > maxFileSizeBytes)
  \/ (Len(config.allowedMimeTypes) > 0
        /\ \A i \in 1..Len(config.allowedMimeTypes) : config.allowedMimeTypes[i] # e.mimetype)
  \/ (e.mediaKey = "" /\ e.mediaHash = "" /\ e.clientUrl = "" /\ e.directPath = "")
  \/ e.id = ""

\* C17: maybeEnrich of an event that fails an admission check returns the
\* event unchanged and leaves the queue, the ItemState map, the deduplication
\* cache, the breaker and every stats counter as they are.
C17_RejectionChangesNothing ==
  [][\A e \in inputs :
       (FailsAdmissionCheck(e) /\ Calls(e))
         => /\ lastReturn' = "none"
            /\ UNCHANGED <<queue, states, deduplicationCache, circuitBreaker, stats,
                           activeDownloads, processing, workers, timers, dlStats>>]_vars

\* An ineligible event was turned away by a manager that has work in hand.
C17_Witness ==
  /\ seen \cap Ineligible # {}
  /\ lastReturn = "none"
  /\ stats.queued >= 1
  /\ workers # {}

\* C18: the manager's deduplication cache never holds more entries than its
\* configured maximum.
C18_DeduplicationCacheBounded ==
  Cardinality(DOMAIN deduplicationCache) <= maxDeduplicationEntries

\* C19: an item never becomes Downloaded from an attempt whose binary write
\* or sidecar write failed: the attempt counts as a failure and the item is
\* retried or, out of retries, set to Error.
C19_WriteFailureFailsAttempt ==
  [][\A w \in workers, fileOk \in BOOLEAN, metaOk \in BOOLEAN :
       (/\ ~(fileOk /\ metaOk)
        /\ \E ioOk \in IoChoices(WritesErrorRecord(w.item)) : SaveDone(w, fileOk, metaOk, ioOk))
       => /\ stats'.downloaded = stats.downloaded
          /\ states'[w.item.messageId].state # MEDIA_STATES.DOWNLOADED
          /\ \/ \E t \in timers' : t.item.obj = w.item.obj /\ t.item.messageId = w.item.messageId
             \/ states'[w.item.messageId].state = MEDIA_STATES.ERROR]_vars

\* The identity's ItemState becomes Downloaded in this step.
BecomesDownloaded(id) ==
  /\ id \in DOMAIN states'
  /\ states'[id].state = MEDIA_STATES.DOWNLOADED
  /\ ~(id \in DOMAIN states /\ states[id].state = MEDIA_STATES.DOWNLOADED)

\* C20: when an attempt succeeds the ItemState becomes Downloaded with a
\* result descriptor, exactly one binary file and one sidecar are persisted
\* for the item, one breaker success is recorded, stats.downloaded grows by
\* one and no failure record is written.
C20_SuccessEffects ==
  [][\A id \in Ids :
       BecomesDownloaded(id)
         => /\ states'[id].result # NoResult
            /\ \E f \in DOMAIN files' : f.messageId = id /\ files' = BagAdd(files, f)
            /\ \E m \in DOMAIN sidecars' :
                 m.messageId = id /\ m.downloaded /\ sidecars' = BagAdd(sidecars, m)
            /\ circuitBreaker'.successes = circuitBreaker.successes + 1
            /\ stats'.downloaded = stats.downloaded + 1
            /\ errorRecords' = errorRecords]_vars

\* The number of failure records on disk for an identity.
Records(b, id) == IF id \in DOMAIN b THEN b[id] ELSE 0

\* The QueueItems held by the queue, a worker or a retry timer after the step.
LiveItemsAfter ==
  {queue'[i] : i \in 1..Len(queue')} \cup {w.item : w \in workers'}
    \cup {t.item : t \in timers'}

C22_NoHashSkipsVerification ==
  [][\A w \in workers :
       w.item.rawData.filehash = "" =>
         /\ (\E result \in {"ok", "corrupt"}, ioOk \in BOOLEAN : FetchDone(w, result, ioOk))
              => /\ dlStats'.integrityChecks = dlStats.integrityChecks
                 /\ dlStats'.integrityFailures = dlStats.integrityFailures
                 /\ dlStats'.successes = dlStats.successes + 1
                 /\ dlStats'.retries = dlStats.retries
                 /\ \E v \in workers' :
                      v.item = w.item /\ v.pc = "save" /\ v.media \in {"b1", "b2"}
         /\ SaveDone(w, TRUE, TRUE, TRUE)
              => /\ states'[w.item.messageId].state = MEDIA_STATES.DOWNLOADED
                 /\ \E m \in DOMAIN sidecars' :
                      /\ m.messageId = w.item.messageId
                      /\ ~m.verified
                      /\ sidecars' = BagAdd(sidecars, m)]_vars

\* The event without a declared hash was downloaded and its sidecar says
\* verified = FALSE.
C22_Witness ==
  /\ "m3" \in DOMAIN states
  /\ states["m3"].state = MEDIA_STATES.DOWNLOADED
  /\ \E m \in DOMAIN sidecars : m.messageId = "m3" /\ ~m.verified
  /\ dlStats.integrityChecks = 0

\* The strategies a worker's downloadMedia call has invoked, the one of its
\* current attempt included.
TriedStrategies(w) == {_attemptDownload(a) : a \in 1..w.attempt}

\* C23: downloadMedia declares a download failed (counts the failure and
\* returns null) only after all four download strategies have been tried:
\* in a step in which the call of a worker awaiting a strategy gives up, the
\* strategies it has invoked are all four.
C23_FailsOnlyAfterAllStrategies ==
  [][\A w \in workers :
       (/\ w.pc = "fetch"
        /\ w \notin workers'
        /\ dlStats'.failures > dlStats.failures)
       => TriedStrategies(w) = {strategies[i] : i \in 1..Len(strategies)}]_vars

\* ------------------------------------------------ MessageMedia on its own
\* A caller builds a MessageMedia and calls validateIntegrity on it, as the
\* test script and the integrity example do: the contents and the expected
\* hashes it can use, and the number of calls it makes.
MediaData == {"", "b1", "b2"}
ExpectedHashes == {"", "h0", "h1", "h2", "H1", "h1 ", "hash_incorrecto"}
ProbeCalls == 2

ValidateIntegrityCall(data, expectedHash) ==
  /\ Len(probes) < ProbeCalls
  /\ probes' = Append(probes, [data |-> data, expectedHash |-> expectedHash,
                               result |-> validateIntegrity(data, expectedHash)])
  /\ UNCHANGED <<webhook, mediaQueue, config, inputs, callsLeft, faultsLeft, queue, states, activeDownloads,
                 processing, loops, deduplicationCache, stats, circuitBreaker,
                 downloadCache, dlStats, workers, timers, files, sidecars,
                 errorRecords, lastReturn, seen>>

IntegrityInit == Constructed(Config(TRUE, 2), {}, 0, 0)

IntegrityNext ==
  \E data \in MediaData, expectedHash \in ExpectedHashes :
    ValidateIntegrityCall(data, expectedHash)

IntegritySpec == IntegrityInit /\ [][IntegrityNext]_vars

\* C24: validateIntegrity(h) returns true exactly when the base64 SHA-256
\* digest of the data equals h as a string, and false for every other h and
\* whenever h or the data is empty.
C24_ValidateIntegrity ==
  \A i \in 1..Len(probes) :
    LET p == probes[i]
    IN /\ p.result \in BOOLEAN
       /\ (p.expectedHash = "" \/ p.data = "") => ~p.result
       /\ (p.expectedHash # "" /\ p.data # "")
            => (p.result <=> (p.expectedHash = Sha256Base64(p.data)))

\* The same content was validated against its digest and against a string
\* that differs from the digest only by the case of a letter.
C24_Witness ==
  \E i, j \in 1..Len(probes) :
    /\ probes[i].data = "b1" /\ probes[i].expectedHash = "h1" /\ probes[i].result
    /\ probes[j].data = "b1" /\ probes[j].expectedHash = "H1" /\ ~probes[j].result

\* C25: a failed attempt that is scheduled for retry puts the ItemState back
\* to Pending: the ItemState is Downloading only while a worker owns the item
\* (its identity is in activeDownloads) and is Pending while the item waits
\* on its retry timer or in the queue.
C25_DownloadingOnlyAtWorker ==
  \A id \in DOMAIN states :
    /\ states[id].state = MEDIA_STATES.DOWNLOADING => id \in activeDownloads
    /\ (\/ \E t \in timers : t.item.messageId = id
        \/ \E i \in 1..Len(queue) : queue[i].messageId = id)
         => states[id].state = MEDIA_STATES.PENDING

\* The number of parties that hold a QueueItem: its places in the queue, the
\* workers processing it and the retry timers that will push it.
Owners(it) ==
  Cardinality({i \in 1..Len(queue) : queue[i] = it})
    + Cardinality({w \in workers : w.item.messageId = it.messageId /\ w.item.obj = it.obj})
    + Cardinality({t \in timers : t.item.messageId = it.messageId /\ t.item.obj = it.obj})

\* C26: a QueueItem is never owned by two parties at once: every item that is
\* not finished is held by exactly one of the queue (at one place), one
\* worker and one retry timer, so no item is twice in the queue or at two
\* workers.
C26_ExclusiveOwnership ==
  /\ \A it \in LiveItems(Cur) : Owners(it) = 1
  /\ \A i, j \in 1..Len(queue) :
       (queue[i].messageId = queue[j].messageId /\ queue[i].obj = queue[j].obj) => i = j
  /\ \A w, v \in workers :
       (w.item.messageId = v.item.messageId /\ w.item.obj = v.item.obj) => w = v

\* Two items of one identity are in flight, one at a worker and one waiting
\* for its retry.
C26_Witness ==
  \E w \in workers, t \in timers :
    w.item.messageId = t.item.messageId /\ w.item.obj # t.item.obj /\ t.item.retries = 1

\* C27: at most one _processQueue loop is active at any time, and it is
\* active exactly while this.processing is set; a _processQueue call made
\* while a loop is running (from an _enqueue during a maybeEnrich call, the
\* step that uses up one of the event source's calls) starts no loop and
\* dequeues and dispatches nothing: the call at most appends its item to the
\* queue.
C27_OneCoordinator ==
  [][/\ loops' \in {0, 1}
     /\ processing' <=> loops' = 1
     /\ (processing /\ callsLeft' = callsLeft - 1)
            => /\ loops' = loops
               /\ processing'
               /\ workers' = workers
               /\ activeDownloads' = activeDownloads
               /\ dlStats' = dlStats
               /\ \/ queue' = queue
                  \/ \E it \in LiveItemsAfter : queue' = Append(queue, it)]_vars

\* An event was enqueued while the loop was running: its item waits in the
\* queue behind the running loop's worker.
C27_Witness ==
  /\ processing /\ loops = 1
  /\ lastReturn = "queued"
  /\ stats.queued = 2
  /\ Len(queue) = 1
  /\ Cardinality(workers) = 1

C29_MemoryPressurePauses ==
  [][/\ \A ioOk \in BOOLEAN :
          SchedulerTick(TRUE, ioOk)
            => UNCHANGED <<queue, activeDownloads, workers, states, dlStats>>
     /\ \A e \in inputs, ioOk \in BOOLEAN :
          MaybeEnrich(e, TRUE, ioOk)
            => /\ UNCHANGED <<activeDownloads, workers, dlStats>>
               /\ \/ queue' = queue
                  \/ \E it \in LiveItemsAfter : queue' = Append(queue, it)
     /\ \A ioOk \in BOOLEAN :
          (/\ SchedulerTick(FALSE, ioOk)
           /\ Len(queue) > 0
           /\ Cardinality(activeDownloads) < concurrentDownloads)
            => /\ Len(queue') < Len(queue)
               /\ dlStats'.downloads > dlStats.downloads]_vars

\* The loop is running and has dispatched nothing yet, with every admitted
\* item still in the queue: it is paused by memory pressure.
C29_Witness ==
  /\ processing
  /\ stats.queued = 2
  /\ Len(queue) = 2
  /\ dlStats.downloads = 0
  /\ workers = {} /\ activeDownloads = {}

\* ------------------------------------------------ a downloader with a full cache
\* A manager whose downloader has cached n earlier downloads, n at the limit
\* or one below it, when two more events arrive.
CacheCalls == 2
CacheFaults == 1

EarlierDownloads(n) == [i \in 1..n |-> <<Md5Hex("old" \o ToString(i)), "b1">>]

CacheInit ==
  \E n \in {downloadCacheLimit - 1, downloadCacheLimit} :
    Idle(Config(TRUE, 2), {EvA, EvC}, CacheCalls, CacheFaults, EarlierDownloads(n))

CacheSpec == CacheInit /\ [][Next]_vars

\* The cache holds at most the limit of entries.
C30_Bounded == Len(downloadCache) <= downloadCacheLimit

\* C30: downloadCache never holds more than 1000 entries; an insertion of a
\* new key into a cache of 1000 entries removes the oldest inserted entry and
\* keeps the others in their order, the media just downloaded being in the
\* cache afterwards; and a downloadMedia call that finds its
\* key in the cache returns the cached media without invoking a strategy
\* (its worker goes straight to the save, no fetch is started for it).
C30_CacheLimitAndHit ==
  /\ C30_Bounded
  /\ [][/\ C30_Bounded'
        /\ downloadCache' # downloadCache
             => LET entry == downloadCache'[Len(downloadCache')]
                IN \/ /\ Len(downloadCache) < downloadCacheLimit
                      /\ downloadCache' = Append(downloadCache, entry)
                   \/ /\ Len(downloadCache) = downloadCacheLimit
                      /\ downloadCache' = Append(Tail(downloadCache), entry)
                   \/ /\ Len(downloadCache') = Len(downloadCache)
                      /\ \A i \in 1..Len(downloadCache) :
                           downloadCache'[i][1] = downloadCache[i][1]
        /\ \A v \in workers' :
             (/\ v.pc = "save"
              /\ \E w \in workers : w.item = v.item /\ w.pc = "fetch")
               => \E i \in 1..Len(downloadCache') :
                    downloadCache'[i] = <<_generateCacheKey(v.item.rawData), v.media>>
        /\ \A v \in workers' :
             (/\ v.item \notin {w.item : w \in workers}
              /\ \E i \in 1..Len(downloadCache) :
                   downloadCache[i][1] = _generateCacheKey(v.item.rawData))
               => /\ v.pc = "save"
                  /\ \E i \in 1..Len(downloadCache) :
                       /\ downloadCache[i][1] = _generateCacheKey(v.item.rawData)
                       /\ v.media = downloadCache[i][2]
                  /\ dlStats'.cached > dlStats.cached
                  /\ downloadCache' = downloadCache]_vars

\* The cache is full, the oldest of the earlier downloads has been evicted
\* and a download of this run is the newest entry; a retry of that item was
\* served from the cache.
C30_Witness ==
  /\ Len(downloadCache) = downloadCacheLimit
  /\ downloadCache[1][1] # Md5Hex("old1")
  /\ downloadCache[downloadCacheLimit][1] \in {_generateCacheKey(EvA), _generateCacheKey(EvC)}
  /\ dlStats.cached > 0

\* ---------------------------------------------------------------- Webhook
\* The Webhook dispatcher (src/src/injected/bridge.js). An option the caller
\* leaves out is <<>>, one it gives is <<value>>.
Option(opt, default) == IF Len(opt) = 0 THEN default ELSE opt[1]

\* new Webhook({enabled, retries}), idle: pc is where its dispatch call
\* stands, attempt the loop variable, posts the _post calls of the current
\* dispatch, waits the backoff delays it has slept.
Webhook(enabledOpt, retriesOpt, nCalls) ==
  [enabled |-> Option(enabledOpt, TRUE) # FALSE,
   retries |-> Option(retriesOpt, 3),
   pc |-> "idle", attempt |-> 0, posts |-> 0, waits |-> <<>>,
   callsLeft |-> nCalls]

\* const backoff = Math.min(1000 * Math.pow(2, attempt), 10000), as it would
\* be without the cap.
backoffUncapped(attempt) == 1000 * Pow2(attempt)

\* const backoff = Math.min(1000 * Math.pow(2, attempt), 10000)
backoff(attempt) == Min(1000 * Pow2(attempt), 10000)

\* The while test of dispatch and, when it holds, the call of _post.
DispatchLoop(h) ==
  IF h.attempt <= h.retries
  THEN [h EXCEPT !.pc = "post", !.posts = @ + 1]
  ELSE [h EXCEPT !.pc = "returned"]

\* dispatch(payload) is called on a Webhook that runs no dispatch.
Dispatch ==
  /\ webhook.pc # "absent"
  /\ webhook.pc \in {"idle", "returned", "thrown"}
  /\ webhook.callsLeft > 0
  /\ LET h == [webhook EXCEPT !.attempt = 0, !.posts = 0, !.waits = <<>>,
                              !.callsLeft = @ - 1]
     IN webhook' = IF ~h.enabled THEN [h EXCEPT !.pc = "returned"] ELSE DispatchLoop(h)
  /\ UNCHANGED <<mediaQueue, config, inputs, callsLeft, faultsLeft, queue, states,
                 activeDownloads, processing, loops, deduplicationCache, stats,
                 circuitBreaker, downloadCache, dlStats, workers, timers, files,
                 sidecars, errorRecords, lastReturn, seen, probes>>

\* The promise of _post settles: the POST succeeded, or it failed (status
\* outside 2xx, request error or timeout).
PostDone(ok) ==
  /\ webhook.pc # "absent"
  /\ webhook.pc = "post"
  /\ webhook' =
       IF ok THEN [webhook EXCEPT !.pc = "returned"]
       ELSE IF webhook.attempt = webhook.retries THEN [webhook EXCEPT !.pc = "thrown"]
       ELSE [webhook EXCEPT !.pc = "sleep", !.waits = Append(@, backoff(webhook.attempt))]
  /\ UNCHANGED <<mediaQueue, config, inputs, callsLeft, faultsLeft, queue, states,
                 activeDownloads, processing, loops, deduplicationCache, stats,
                 circuitBreaker, downloadCache, dlStats, workers, timers, files,
                 sidecars, errorRecords, lastReturn, seen, probes>>

\* The backoff sleep of dispatch ends: attempt++ and the loop goes round.
SleepDone ==
  /\ webhook.pc # "absent"
  /\ webhook.pc = "sleep"
  /\ webhook' = DispatchLoop([webhook EXCEPT !.attempt = @ + 1])
  /\ UNCHANGED <<mediaQueue, config, inputs, callsLeft, faultsLeft, queue, states,
                 activeDownloads, processing, loops, deduplicationCache, stats,
                 circuitBreaker, downloadCache, dlStats, workers, timers, files,
                 sidecars, errorRecords, lastReturn, seen, probes>>

\* A Webhook built with every choice of enabled and of retries up to
\* WebhookRetries, which dispatches WebhookCalls payloads one after another.
WebhookRetries == 5
WebhookCalls == 2

WebhookInit ==
  /\ Manager(Config(TRUE, 2), {}, 0, 0, <<>>)
  /\ mediaQueue = Absent
  /\ \E enabledOpt \in {<<>>, <<TRUE>>, <<FALSE>>},
        retriesOpt \in {<<>>} \cup {<<n>> : n \in 0..WebhookRetries} :
       webhook = Webhook(enabledOpt, retriesOpt, WebhookCalls)

WebhookNext ==
  \/ Dispatch
  \/ \E ok \in BOOLEAN : PostDone(ok)
  \/ SleepDone

WebhookSpec == WebhookInit /\ [][WebhookNext]_vars

\* What C31 says of a Webhook at any moment of a dispatch.
C31_Attempts ==
  /\ webhook.posts <= webhook.retries + 1
  /\ ~webhook.enabled => webhook.posts = 0
  /\ webhook.pc = "thrown" => webhook.posts = webhook.retries + 1
  /\ Len(webhook.waits) = webhook.attempt + (IF webhook.pc = "sleep" THEN 1 ELSE 0)
  /\ \A k \in 1..Len(webhook.waits) :
       webhook.waits[k] = (IF 1000 * Pow2(k - 1) < 10000 THEN 1000 * Pow2(k - 1) ELSE 10000)
  /\ webhook.pc \in {"post", "sleep", "thrown"} => webhook.posts = webhook.attempt + 1

\* C31: dispatch makes at most retries+1 POST attempts for one payload,
\* returns after the first successful POST without another attempt, sleeps
\* min(1000*2^k, 10000) ms after the k-th failed attempt (k from 0), throws
\* only when attempt number retries+1 has failed, and makes no attempt when
\* the webhook is disabled.
C31_DispatchRetries ==
  /\ C31_Attempts
  /\ [][/\ C31_Attempts'
        /\ (webhook.pc = "post" /\ webhook'.pc = "returned")
             => webhook'.posts = webhook.posts /\ webhook'.waits = webhook.waits
        /\ (webhook.pc \in {"returned", "thrown"} /\ webhook'.callsLeft = webhook.callsLeft)
             => webhook' = webhook
        /\ webhook'.pc = "thrown" => webhook.pc \in {"post", "thrown"}]_vars

\* A dispatch that slept the capped backoff and threw after its last attempt.
C31_Witness ==
  /\ webhook.pc = "thrown"
  /\ webhook.retries = 5
  /\ webhook.posts = 6
  /\ webhook.waits = <<1000, 2000, 4000, 8000, 10000>>

\* ---------------------------------------------------------------- MediaQueue
\* The MediaQueue of src/unnamed/part_005 (src/src/media/queue.js has the
\* same enqueue). running holds the items of the processItem calls that
\* await downloader.downloadMedia, timers the items whose retry setTimeout
\* is pending; both are sequences, since two items can be equal.
MediaQueue(cfg, nCalls, nFaults) ==
  [pc |-> "built", config |-> cfg, queue |-> <<>>, processing |-> FALSE,
   states |-> <<>>, activeDownloads |-> {},
   maxConcurrent |-> IF cfg.concurrentDownloads # 0 THEN cfg.concurrentDownloads ELSE 3,
   stats |-> [processed |-> 0, downloaded |-> 0, errors |-> 0, queued |-> 0],
   running |-> <<>>, timers |-> <<>>, lastReturn |-> "none",
   callsLeft |-> nCalls, faultsLeft |-> nFaults]

\* The sequence s without its i-th element.
Without(s, i) == SubSeq(s, 1, i - 1) \o SubSeq(s, i + 1, Len(s))

\* MediaQueue.processItem up to its await.
processItem(q, item) ==
  [q EXCEPT !.activeDownloads = @ \cup {item.messageId},
            !.states = MapSet(@, item.messageId, MEDIA_STATES.DOWNLOADING),
            !.running = Append(@, item)]

\* while (queue.length > 0 && activeDownloads.size < maxConcurrent)
\*   processItem(queue.shift())
RECURSIVE StartDownloads(_)
StartDownloads(q) ==
  IF Len(q.queue) > 0 /\ Cardinality(q.activeDownloads) < q.maxConcurrent
  THEN StartDownloads(processItem([q EXCEPT !.queue = Tail(@)], Head(q.queue)))
  ELSE q

\* One test of the outer while of processQueue and, when it holds, one body
\* up to its sleep.
processQueueIteration(q) ==
  IF Len(q.queue) > 0 \/ Cardinality(q.activeDownloads) > 0
  THEN StartDownloads(q)
  ELSE [q EXCEPT !.processing = FALSE]

\* MediaQueue.processQueue up to its first sleep.
processQueue(q) ==
  IF q.processing THEN q
  ELSE processQueueIteration([q EXCEPT !.processing = TRUE])

\* MediaQueue.enqueue: returns <<result, queue object after the call>>.
enqueue(q, messageId, rawData) ==
  LET currentState == IF messageId \in DOMAIN q.states THEN q.states[messageId] ELSE "undefined"
  IN IF currentState \in {MEDIA_STATES.DOWNLOADED, MEDIA_STATES.DOWNLOADING}
     THEN <<FALSE, q>>
     ELSE IF \A i \in 1..Len(q.config.downloadTypes) : q.config.downloadTypes[i] # rawData.type
     THEN <<FALSE, q>>
     ELSE IF rawData.size # 0 /\ rawData.size > q.config.maxFileSize
     THEN <<FALSE, [q EXCEPT !.states = MapSet(@, messageId, MEDIA_STATES.ERROR)]>>
     ELSE <<TRUE,
            processQueue([q EXCEPT !.queue = Append(@, [messageId |-> messageId,
                                                       rawData |-> rawData,
                                                       retries |-> 0]),
                                   !.states = MapSet(@, messageId, MEDIA_STATES.PENDING),
                                   !.stats.queued = @ + 1])>>

\* The frame of a MediaQueue step.
MediaQueueStep(q) ==
  /\ mediaQueue' = q
  /\ UNCHANGED <<webhook, config, inputs, callsLeft, faultsLeft, queue, states,
                 activeDownloads, processing, loops, deduplicationCache, stats,
                 circuitBreaker, downloadCache, dlStats, workers, timers, files,
                 sidecars, errorRecords, lastReturn, seen, probes>>

\* The file storage calls mediaQueue.enqueue(messageId, rawData).
Enqueue(messageId, rawData) ==
  /\ mediaQueue.pc = "built"
  /\ mediaQueue.callsLeft > 0
  /\ LET r == enqueue(mediaQueue, messageId, rawData)
     IN MediaQueueStep([r[2] EXCEPT !.lastReturn = IF r[1] THEN "true" ELSE "false",
                                    !.callsLeft = @ - 1])

\* The processQueue loop wakes from its sleep(100).
ProcessQueueWakes ==
  /\ mediaQueue.pc = "built"
  /\ mediaQueue.processing
  /\ MediaQueueStep(processQueueIteration(mediaQueue))

\* downloader.downloadMedia of the i-th running processItem settles with
\* {success: true}, with {success: false} or by throwing.
DownloadDone(i, outcome) ==
  /\ mediaQueue.pc = "built"
  /\ i \in 1..Len(mediaQueue.running)
  /\ outcome = "success" \/ mediaQueue.faultsLeft > 0
  /\ LET item == mediaQueue.running[i]
         id == item.messageId
         q == [mediaQueue EXCEPT !.running = Without(@, i),
                                 !.faultsLeft = IF outcome = "success" THEN @ ELSE @ - 1]
         q1 == CASE outcome = "success" ->
                      [q EXCEPT !.states = MapSet(@, id, MEDIA_STATES.DOWNLOADED),
                                !.stats.downloaded = @ + 1, !.stats.processed = @ + 1]
                 [] outcome = "failure" ->
                      [q EXCEPT !.states = MapSet(@, id, MEDIA_STATES.ERROR),
                                !.stats.errors = @ + 1, !.stats.processed = @ + 1,
                                !.timers = IF item.retries < 2
                                           THEN Append(@, [item EXCEPT !.retries = @ + 1])
                                           ELSE @]
                 [] OTHER ->
                      [q EXCEPT !.states = MapSet(@, id, MEDIA_STATES.ERROR),
                                !.stats.errors = @ + 1, !.stats.processed = @ + 1]
     IN MediaQueueStep([q1 EXCEPT !.activeDownloads = @ \ {id}])

\* setTimeout(() => this.queue.push(item), 5000 * item.retries) fires.
RetryPush(i) ==
  /\ mediaQueue.pc = "built"
  /\ i \in 1..Len(mediaQueue.timers)
  /\ MediaQueueStep([mediaQueue EXCEPT !.queue = Append(@, mediaQueue.timers[i]),
                                       !.timers = Without(@, i)])

\* The events the file storage hands over: two identities, media of a type
\* on the download list, of another type, and over the size limit.
MediaQueueIds == {"m1", "m2"}
MediaQueueData ==
  {[type |-> "image", size |-> 0], [type |-> "chat", size |-> 0],
   [type |-> "image", size |-> maxFileSizeBytes + 1]}
MediaQueueCalls == 3
MediaQueueFaults == 1

MediaQueueInit ==
  /\ Manager(Config(TRUE, 2), {}, 0, 0, <<>>)
  /\ webhook = Absent
  /\ mediaQueue = MediaQueue([downloadTypes |-> downloadTypes,
                              maxFileSize |-> maxFileSizeBytes,
                              concurrentDownloads |-> 2],
                             MediaQueueCalls, MediaQueueFaults)

MediaQueueNext ==
  \/ \E messageId \in MediaQueueIds, rawData \in MediaQueueData : Enqueue(messageId, rawData)
  \/ ProcessQueueWakes
  \/ \E i \in 1..Len(mediaQueue.running), outcome \in {"success", "failure", "throw"} :
       DownloadDone(i, outcome)
  \/ \E i \in 1..Len(mediaQueue.timers) : RetryPush(i)

MediaQueueSpec == MediaQueueInit /\ [][MediaQueueNext]_vars

\* C32: the MediaQueue queue never holds two items with the same messageId
\* (enqueue adds nothing for a messageId that is Pending, Downloading or
\* Downloaded), and no messageId is being downloaded by two processItem runs.
C32_OneItemPerMessage ==
  /\ \A i, j \in 1..Len(mediaQueue.queue) :
       mediaQueue.queue[i].messageId = mediaQueue.queue[j].messageId => i = j
  /\ \A i, j \in 1..Len(mediaQueue.running) :
       mediaQueue.running[i].messageId = mediaQueue.running[j].messageId => i = j

\* C33: a maybeEnrich call that drops an eligible event, because the queue
\* is full or the breaker is open, leaves no deduplication-cache entry
\* behind: the call returns the event untouched and the cache is as it was
\* before the call.
C33_DropLeavesNoFingerprint ==
  [][(/\ callsLeft' = callsLeft - 1
      /\ lastReturn' = "none"
      /\ \A e \in inputs : Admissible(e))
     => deduplicationCache' = deduplicationCache]_vars

\* C34: every event that passes the manager's admission checks in
\* maybeEnrich also passes MediaDownloader._validateMessage, so no admitted
\* item fails without the fetch driver being invoked.
C34_AdmittedPassesDownloader ==
  \A e \in seen : Admissible(e) => _validateMessage(e)

\* ------------------------------------------------ events located by URL only
\* Two events of different identities whose only pointer is clientUrl, with
\* no size: every field that enters the deduplication key is empty.
EvUrl1 == RawData("m6", "image", "image/jpeg", 0, "", "", "", "", "https://cdn/u1")
EvUrl2 == RawData("m7", "image", "image/jpeg", 0, "", "", "", "", "https://cdn/u2")

UrlCalls == 2
UrlFaults == 1

UrlInit == Constructed(Config(TRUE, 2), {EvUrl1, EvUrl2}, UrlCalls, UrlFaults)

UrlSpec == UrlInit /\ [][Next]_vars

\* The two events agree on a populated fingerprint field.
AgreeOnField(e1, e2) ==
  LET hash(e) == IF e.mediaHash # "" THEN e.mediaHash ELSE e.filehash
  IN \/ e1.mediaKey # "" /\ e1.mediaKey = e2.mediaKey
     \/ hash(e1) # "" /\ hash(e1) = hash(e2)
     \/ e1.directPath # "" /\ e1.directPath = e2.directPath
     \/ e1.size # 0 /\ e1.size = e2.size

\* C35: two events with different identities are reported as duplicates of
\* each other only if they agree on a populated fingerprint field: when
\* every call so far delivered another event, and the events delivered have
\* different identities and agree on no populated field, none of them was
\* reported deduplicated.
C35_DuplicatesShareField ==
  (/\ Cardinality(seen) = UrlCalls - callsLeft
   /\ \A e1, e2 \in seen : e1 # e2 => (e1.id # e2.id /\ ~AgreeOnField(e1, e2)))
    => stats.deduplicated = 0

\* C36: whenever the breaker is Closed its consecutive-failure count is
\* strictly below circuitBreakerThreshold.
C36_ClosedBelowThreshold ==
  circuitBreaker.state = CIRCUIT_BREAKER_STATES.CLOSED
    => circuitBreaker.failures < circuitBreakerThreshold

\* The breaker has tripped, was closed again by a success and has since
\* recorded a failure.
C36_Witness ==
  /\ circuitBreaker.state = CIRCUIT_BREAKER_STATES.CLOSED
  /\ circuitBreaker.failures = circuitBreakerThreshold - 1
  /\ circuitBreaker.successes > 0
  /\ stats.circuitBreakerTrips > 0

\* C37: stats.circuitBreakerTrips counts the transitions of the breaker into
\* Open from Closed or HalfOpen, and a failure recorded while the breaker is
\* already Open is not another trip: a step that makes no breaker check (no
\* maybeEnrich call) and starts with the breaker Open, which such a step
\* cannot leave, counts no trip.
C37_NoTripWhileOpen ==
  [][(/\ callsLeft' = callsLeft
      /\ circuitBreaker.state = CIRCUIT_BREAKER_STATES.OPEN)
     => stats'.circuitBreakerTrips = stats.circuitBreakerTrips]_vars

\* ------------------------------------------------ cleanup among live items
\* Events of two identities, one of them delivered more than once, with
\* deduplication on or off, so that cleanup() runs while items are queued,
\* in flight and in backoff.
CleanupCalls == 3
CleanupFaults == 1

CleanupInit ==
  \E dedup \in BOOLEAN :
    Constructed(Config(dedup, 2), {EvA, EvC}, CleanupCalls, CleanupFaults)

CleanupSpec == CleanupInit /\ [][Next]_vars

\* A cleanup() call removed an entry.
Purges == DOMAIN states' # DOMAIN states /\ DOMAIN states' \subseteq DOMAIN states

\* What cleanup() removes and what it leaves alone.
PurgesOnlyOldTerminal ==
  /\ \A id \in (DOMAIN states) \ (DOMAIN states') :
       /\ states[id].state \in {MEDIA_STATES.DOWNLOADED, MEDIA_STATES.ERROR}
       /\ states[id].age > cleanupCompletedAfterMs
  /\ \A id \in DOMAIN states' : states'[id] = states[id]
  /\ UNCHANGED <<queue, activeDownloads, circuitBreaker, stats, workers, timers>>

\* C38 as stated: cleanup() removes only Downloaded or Error entries older
\* than cleanupCompletedAfterMs, leaves the queue, activeDownloads, the
\* breaker and the stats unchanged, and every queued, in-flight or backoff
\* item keeps its ItemState.
C38_CleanupKeepsLiveStates ==
  [][Purges => /\ PurgesOnlyOldTerminal
               /\ \A it \in LiveItems(Cur) : it.messageId \in DOMAIN states']_vars

\* C38 amended: the same, the last part with deduplication enabled.
C38_CleanupKeepsLiveStatesWithDeduplication ==
  [][Purges => /\ PurgesOnlyOldTerminal
               /\ enableDeduplication
                    => \A it \in LiveItems(Cur) : it.messageId \in DOMAIN states']_vars

\* With deduplication on, the entry of the downloaded m1 has been purged
\* while the item of m3 is at a worker and keeps its ItemState.
C38_Witness ==
  /\ enableDeduplication
  /\ "m1" \notin DOMAIN states
  /\ stats.downloaded = 1 /\ stats.queued = 2
  /\ \E w \in workers : w.item.messageId = "m3"
  /\ "m3" \in DOMAIN states /\ states["m3"].state = MEDIA_STATES.DOWNLOADING

C40_DownloadsIsSumOfOutcomes ==
  (\A w \in workers : w.pc \notin {"fetch", "sleep"})
    => dlStats.downloads = dlStats.successes + dlStats.failures + dlStats.cached

====
